---- MODULE Spec2Model ----
(***************************************************************************)
(* Model of the pathext crate (src/src/lib.rs): the PathExt trait and its  *)
(* blanket implementation for every T: AsRef<Path>.                        *)
(*                                                                         *)
(* A path is the sequence of bytes of its OsStr (unix).  A byte is a       *)
(* one-character string; InvalidByte stands for a byte that is not valid   *)
(* UTF-8, so a path holding it has no textual form (Path::to_str is None). *)
(* A pattern is a &str: a sequence of valid characters only.               *)
(***************************************************************************)
EXTENDS Integers, Sequences, FiniteSets, TLC

VARIABLES self, pattern, recv, op, calls, result

vars == <<self, pattern, recv, op, calls, result>>

-----------------------------------------------------------------------------
(* Bounds of the generated inputs *)

MaxPathLen == 4
MaxPatternLen == 2
MaxCalls == 2

Sep == "/"
Dot == "."
InvalidByte == "<ff>"

PatternChars == {Sep, Dot, "a"}
PathBytes == PatternChars \cup {InvalidByte}

SeqsUpTo(S, n) == UNION {[1..k -> S] : k \in 0..n}

-----------------------------------------------------------------------------
(* Inputs of the doc example and the unit tests, and a few more of the    *)
(* same shape (a '.' in a directory segment, a string prefix that cuts a   *)
(* component, a prefix longer than the path, a bare last segment)          *)

OptPath ==
    <<"/","o","p","t","/","s","o","m","e","w","h","e","r","e","/",
      "s","o","m","e","p","l","a","c","e","/","s","o","m","e","h","o","w","/">>
OptShortPath ==
    <<"/","o","p","t","/","s","o","m","e","w","h","e","r","e","/",
      "s","o","m","e","p","l","a","c","e","/">>
SomePath == <<"/","s","o","m","e","/","p","a","t","h">>
ArchivePath == <<"a","r","c","h","i","v","e",".","t","a","r",".","g","z">>
UsrPath ==
    <<"/","u","s","r","/","l","o","c","a","l","/","a","a","r","d","v","a","r","k">>
ThisPath == <<"/","t","h","i","s","/","a","n","d","/","t","h","a","t","/">>
DotStuff == <<".","s","t","u","f","f">>
SomethingTarGz == <<"s","o","m","e","t","h","i","n","g",".","t","a","r",".","g","z">>
LastDot == <<"l","a","s","t","d","o","t",".">>
DirDotPath == <<"d",".","d","/","f",".","g","z">>

P_opt == <<"o","p","t">>
P_slash_opt == <<"/","o","p","t">>
P_somewhere == <<"s","o","m","e","w","h","e","r","e">>
P_someplace_sl == <<"s","o","m","e","p","l","a","c","e","/">>
P_somehow_sl == <<"s","o","m","e","h","o","w","/">>
P_sl_someplace_somehow ==
    <<"/","s","o","m","e","p","l","a","c","e","/","s","o","m","e","h","o","w">>
P_someplace_somehow ==
    <<"s","o","m","e","p","l","a","c","e","/","s","o","m","e","h","o","w">>
P_someplace_somehow_sl ==
    <<"s","o","m","e","p","l","a","c","e","/","s","o","m","e","h","o","w","/">>
P_root == <<"r","o","o","t">>
P_path == <<"p","a","t","h">>
P_some_path == <<"s","o","m","e","/","p","a","t","h">>
P_so == <<"s","o">>
P_dot_tar_gz == <<".","t","a","r",".","g","z">>
P_tar_gz == <<"t","a","r",".","g","z">>
P_dot_gz == <<".","g","z">>
P_z == <<"z">>
P_gz_no_dot == <<"r","g","z">>
P_usr_local == <<"/","u","s","r","/","l","o","c","a","l">>
P_usr_sl == <<"/","u","s","r","/">>
P_usr_lo == <<"/","u","s","r","/","l","o">>
P_repos_local == <<"/","r","e","p","o","s","/","l","o","c","a","l","/">>
P_long ==
    <<"/","u","s","r","/","l","o","c","a","l","/","a","a","r","d","v","a","r","k",
      "/","b","i","n">>

ExampleCalls ==
    ({OptPath} \X {P_opt, P_slash_opt, P_somewhere, P_sl_someplace_somehow,
                   P_someplace_somehow, P_someplace_somehow_sl, P_somehow_sl,
                   P_root, <<Sep>>, <<>>})
    \cup ({OptShortPath} \X {P_opt, P_somewhere, P_someplace_sl, P_root})
    \cup ({SomePath} \X {P_path, P_some_path, P_so})
    \cup ({ArchivePath} \X {P_dot_tar_gz, P_tar_gz, P_dot_gz, P_z, ArchivePath,
                            P_gz_no_dot})
    \cup ({UsrPath} \X {P_usr_local, P_usr_sl, P_usr_lo, P_repos_local, P_long})
    \cup ({ThisPath} \X {<<Sep>>})
    \cup ({DotStuff, SomethingTarGz, LastDot, DirDotPath} \X {<<>>})

-----------------------------------------------------------------------------
(* Values returned to the caller *)

Unset == [tag |-> "unset", b |-> FALSE, s |-> <<>>]
Bool(v) == [tag |-> "bool", b |-> v, s |-> <<>>]
SomeStr(t) == [tag |-> "some", b |-> FALSE, s |-> t]
NoneStr == [tag |-> "none", b |-> FALSE, s |-> <<>>]
PathRef(p) == [tag |-> "path", b |-> FALSE, s |-> p]
Panic == [tag |-> "panic", b |-> FALSE, s |-> <<>>]

-----------------------------------------------------------------------------
(* std::path::Path::to_str and the str methods the crate calls *)

ToStr(p) ==
    IF \E i \in 1..Len(p) : p[i] = InvalidByte
    THEN [some |-> FALSE, s |-> <<>>]
    ELSE [some |-> TRUE, s |-> p]

Drop(s, n) == SubSeq(s, n + 1, Len(s))

StrStartsWith(s, pat) ==
    Len(pat) <= Len(s) /\ SubSeq(s, 1, Len(pat)) = pat

StrEndsWith(s, pat) ==
    Len(pat) <= Len(s) /\ SubSeq(s, Len(s) - Len(pat) + 1, Len(s)) = pat

StrContains(s, pat) ==
    \E i \in 0..(Len(s) - Len(pat)) : SubSeq(s, i + 1, i + Len(pat)) = pat

\* str::split_once(c): the text before and after the first occurrence of c
SplitOnce(s, c) ==
    IF \E i \in 1..Len(s) : s[i] = c
    THEN LET i == CHOOSE k \in 1..Len(s) :
                      s[k] = c /\ \A j \in 1..(k - 1) : s[j] # c
         IN  [some |-> TRUE, base |-> SubSeq(s, 1, i - 1), rest |-> Drop(s, i)]
    ELSE [some |-> FALSE, base |-> <<>>, rest |-> <<>>]

-----------------------------------------------------------------------------
(* std::path::Components on unix: what Path::components and               *)
(* Path::strip_prefix do with the bytes                                    *)

NoComponent == [some |-> FALSE, kind |-> "None", str |-> <<>>]
Component(k, s) == [some |-> TRUE, kind |-> k, str |-> s]

\* parse_single_component
ParseSingleComponent(comp) ==
    IF comp = <<Dot>> THEN NoComponent
    ELSE IF comp = <<Dot, Dot>> THEN Component("ParentDir", comp)
    ELSE IF comp = <<>> THEN NoComponent
    ELSE Component("Normal", comp)

\* parse_next_component: the bytes up to the first separator
ParseNextComponent(path) ==
    LET seps == {i \in 1..Len(path) : path[i] = Sep}
        n == IF seps = {} THEN Len(path)
             ELSE (CHOOSE i \in seps : \A j \in seps : i <= j) - 1
        extra == IF seps = {} THEN 0 ELSE 1
    IN  [size |-> n + extra, comp |-> ParseSingleComponent(SubSeq(path, 1, n))]

\* include_cur_dir: a leading "." that is a component of its own
IncludeCurDir(it) ==
    /\ ~it.has_physical_root
    /\ \/ it.path = <<Dot>>
       \/ Len(it.path) >= 2 /\ it.path[1] = Dot /\ it.path[2] = Sep

\* Path::components
ComponentsIter(p) ==
    [path |-> p, has_physical_root |-> (p # <<>> /\ p[1] = Sep), front |-> "Prefix"]

BeforeBody(it) == it.front \in {"Prefix", "StartDir"}

\* len_before_body
LenBeforeBody(it) ==
    (IF BeforeBody(it) /\ it.has_physical_root THEN 1 ELSE 0)
    + (IF BeforeBody(it) /\ IncludeCurDir(it) THEN 1 ELSE 0)

\* Iterator::next for Components: the component produced, if any, and the
\* iterator after it
RECURSIVE ComponentsNext(_)
ComponentsNext(it) ==
    CASE it.front = "Prefix" ->
            ComponentsNext([it EXCEPT !.front = "StartDir"])
      [] it.front = "StartDir" ->
            IF it.has_physical_root
            THEN [comp |-> Component("RootDir", <<Sep>>),
                  it |-> [it EXCEPT !.front = "Body", !.path = Drop(it.path, 1)]]
            ELSE IF IncludeCurDir(it)
            THEN [comp |-> Component("CurDir", <<Dot>>),
                  it |-> [it EXCEPT !.front = "Body", !.path = Drop(it.path, 1)]]
            ELSE ComponentsNext([it EXCEPT !.front = "Body"])
      [] it.front = "Body" ->
            IF it.path # <<>>
            THEN LET pn == ParseNextComponent(it.path)
                     rest == [it EXCEPT !.path = Drop(it.path, pn.size)]
                 IN  IF pn.comp.some
                     THEN [comp |-> pn.comp, it |-> rest]
                     ELSE ComponentsNext(rest)
            ELSE ComponentsNext([it EXCEPT !.front = "Done"])
      [] OTHER -> [comp |-> NoComponent, it |-> it]

\* trim_left: drop leading separators and "." segments
RECURSIVE TrimLeft(_)
TrimLeft(path) ==
    IF path = <<>> THEN path
    ELSE LET pn == ParseNextComponent(path)
         IN  IF pn.comp.some THEN path ELSE TrimLeft(Drop(path, pn.size))

\* parse_next_component_back
ParseNextComponentBack(path, start) ==
    LET seps == {i \in (start + 1)..Len(path) : path[i] = Sep}
        last == IF seps = {} THEN start
                ELSE CHOOSE i \in seps : \A j \in seps : j <= i
        comp == Drop(path, last)
        extra == IF seps = {} THEN 0 ELSE 1
    IN  [size |-> Len(comp) + extra, comp |-> ParseSingleComponent(comp)]

\* trim_right: drop trailing separators and "." segments
RECURSIVE TrimRight(_, _)
TrimRight(path, start) ==
    IF Len(path) > start
    THEN LET pb == ParseNextComponentBack(path, start)
         IN  IF pb.comp.some THEN path
             ELSE TrimRight(SubSeq(path, 1, Len(path) - pb.size), start)
    ELSE path

\* Components::as_path: the bytes the iterator has not yet produced
AsPath(it) ==
    LET left == IF it.front = "Body" THEN TrimLeft(it.path) ELSE it.path
    IN  TrimRight(left, LenBeforeBody(it))

\* Iterator::any over the components
RECURSIVE AnyComponent(_, _)
AnyComponent(it, str) ==
    LET n == ComponentsNext(it)
    IN  IF ~n.comp.some THEN FALSE
        ELSE IF n.comp.str = str THEN TRUE
        ELSE AnyComponent(n.it, str)

\* iter_after: the iterator past the components of prefix, if they lead it
RECURSIVE IterAfter(_, _)
IterAfter(iter, prefix) ==
    LET x == ComponentsNext(iter)
        y == ComponentsNext(prefix)
    IN  IF x.comp.some /\ y.comp.some
        THEN IF x.comp = y.comp THEN IterAfter(x.it, y.it)
             ELSE [ok |-> FALSE, it |-> iter]
        ELSE IF ~y.comp.some THEN [ok |-> TRUE, it |-> iter]
        ELSE [ok |-> FALSE, it |-> iter]

\* Path::strip_prefix
StripPrefix(p, base) ==
    LET r == IterAfter(ComponentsIter(p), ComponentsIter(base))
    IN  IF r.ok THEN [ok |-> TRUE, path |-> AsPath(r.it)]
        ELSE [ok |-> FALSE, path |-> <<>>]

\* The component sequence of a path: everything Path::components produces
RECURSIVE Collect(_)
Collect(it) ==
    LET n == ComponentsNext(it)
    IN  IF n.comp.some THEN <<n.comp>> \o Collect(n.it) ELSE <<>>

Components(p) == Collect(ComponentsIter(p))

-----------------------------------------------------------------------------
(* Sequences of components *)

\* cx leads cp: cx is an initial part of cp
Leads(cx, cp) == Len(cx) <= Len(cp) /\ SubSeq(cp, 1, Len(cx)) = cx

\* cx trails cp: cx is a final part of cp
Trails(cx, cp) ==
    Len(cx) <= Len(cp) /\ SubSeq(cp, Len(cp) - Len(cx) + 1, Len(cp)) = cx

\* a query with its trailing separators removed
RECURSIVE TrimTrailingSeps(_)
TrimTrailingSeps(x) ==
    IF x # <<>> /\ x[Len(x)] = Sep
    THEN TrimTrailingSeps(SubSeq(x, 1, Len(x) - 1))
    ELSE x

-----------------------------------------------------------------------------
(* impl<T: AsRef<Path>> PathExt for T *)

\* contains with the answer for a path without textual form inverted
contains_map_or_true(p, pat) ==
    LET t == ToStr(p)
    IN  Bool(IF t.some THEN StrContains(t.s, pat) ELSE TRUE)

contains(p, pat) ==
    LET t == ToStr(p)
    IN  Bool(IF t.some THEN StrContains(t.s, pat) ELSE FALSE)

\* has_component as a substring test on the textual form
has_component_via_contains(p, component) ==
    LET t == ToStr(p)
    IN  Bool(IF t.some THEN StrContains(t.s, component) ELSE FALSE)

\* has_component with the trailing separators of the query trimmed first
has_component_trimmed(p, component) ==
    Bool(AnyComponent(ComponentsIter(p), TrimTrailingSeps(component)))

has_component(p, component) ==
    Bool(AnyComponent(ComponentsIter(p), component))

\* starts_or_ends_with with && in place of ||
starts_and_ends_with(p, pat) ==
    LET t == ToStr(p)
    IN  Bool(IF t.some THEN StrStartsWith(t.s, pat) /\ StrEndsWith(t.s, pat)
             ELSE FALSE)

\* starts_or_ends_with through Path::starts_with and Path::ends_with, which
\* compare whole components
starts_or_ends_with_components(p, pat) ==
    Bool(\/ Leads(Components(pat), Components(p))
         \/ Trails(Components(pat), Components(p)))

starts_or_ends_with(p, pat) ==
    LET t == ToStr(p)
    IN  Bool(IF t.some THEN StrStartsWith(t.s, pat) \/ StrEndsWith(t.s, pat)
             ELSE FALSE)

\* ends_with_extensions through Path::ends_with, which compares whole components
ends_with_extensions_components(p, pat) ==
    Bool(ToStr(p).some /\ Trails(Components(pat), Components(p)))

ends_with_extensions(p, pat) ==
    LET t == ToStr(p)
    IN  Bool(IF t.some THEN StrEndsWith(t.s, pat) ELSE FALSE)

\* strip_extensions cutting at the last '.' (rsplit_once)
strip_extensions_last_dot(p) ==
    LET t == ToStr(p)
        dots == {i \in 1..Len(p) : p[i] = Dot}
    IN  IF t.some
        THEN IF dots # {}
             THEN SomeStr(SubSeq(p, 1, (CHOOSE i \in dots : \A j \in dots : j <= i) - 1))
             ELSE SomeStr(t.s)
        ELSE NoneStr

\* strip_extensions with the empty string standing in for the absent result
strip_extensions_or_default(p) ==
    LET t == ToStr(p)
    IN  IF t.some
        THEN LET sp == SplitOnce(t.s, Dot)
             IN  IF sp.some THEN SomeStr(sp.base) ELSE SomeStr(t.s)
        ELSE SomeStr(<<>>)

strip_extensions(p) ==
    LET t == ToStr(p)
    IN  IF t.some
        THEN LET sp == SplitOnce(t.s, Dot)
             IN  IF sp.some THEN SomeStr(sp.base) ELSE SomeStr(t.s)
        ELSE NoneStr

\* strip_prefix_if_needed through str::strip_prefix on the bytes
strip_prefix_if_needed_textual(p, prefix) ==
    IF StrStartsWith(p, prefix) THEN PathRef(Drop(p, Len(prefix))) ELSE PathRef(p)

\* strip_prefix_if_needed unwrapping the result of Path::strip_prefix
strip_prefix_unwrap(p, prefix) ==
    LET r == StripPrefix(p, prefix)
    IN  IF r.ok THEN PathRef(r.path) ELSE Panic

strip_prefix_if_needed(p, prefix) ==
    LET r == StripPrefix(p, prefix)
    IN  IF r.ok THEN PathRef(r.path) ELSE PathRef(p)

-----------------------------------------------------------------------------
(* The caller: one path and one pattern, then one method call on the path. *)
(* strip_prefix_if_needed returns a &Path, which is AsRef<Path> itself, so *)
(* the caller may call it again on what it got.                            *)

Init ==
    /\ \/ self \in SeqsUpTo(PathBytes, MaxPathLen)
          /\ pattern \in SeqsUpTo(PatternChars, MaxPatternLen)
       \/ \E c \in ExampleCalls : self = c[1] /\ pattern = c[2]
    /\ recv = self
    /\ op = "none"
    /\ calls = 0
    /\ result = Unset

Call(name, r) ==
    /\ op = "none"
    /\ op' = name
    /\ result' = r
    /\ calls' = 1
    /\ UNCHANGED <<self, pattern, recv>>

Contains == Call("contains", contains(self, pattern))

HasComponent == Call("has_component", has_component(self, pattern))

StartsOrEndsWith == Call("starts_or_ends_with", starts_or_ends_with(self, pattern))

EndsWithExtensions == Call("ends_with_extensions", ends_with_extensions(self, pattern))

StripExtensions == Call("strip_extensions", strip_extensions(self))

StripPrefixIfNeeded ==
    Call("strip_prefix_if_needed", strip_prefix_if_needed(self, pattern))

StripPrefixIfNeededAgain ==
    /\ op = "strip_prefix_if_needed"
    /\ result.tag = "path"
    /\ calls < MaxCalls
    /\ recv' = result.s
    /\ result' = strip_prefix_if_needed(result.s, pattern)
    /\ calls' = calls + 1
    /\ UNCHANGED <<self, pattern, op>>

Next ==
    \/ Contains
    \/ HasComponent
    \/ StartsOrEndsWith
    \/ EndsWithExtensions
    \/ StripExtensions
    \/ StripPrefixIfNeeded
    \/ StripPrefixIfNeededAgain

Spec == Init /\ [][Next]_vars

-----------------------------------------------------------------------------
(* Vocabulary of the properties *)

HasText(p) == \A i \in 1..Len(p) : p[i] # InvalidByte

IsSubstring(x, t) ==
    \E i \in 0..Len(t) : \E j \in i..Len(t) : SubSeq(t, i + 1, j) = x

IsPrefixOf(x, t) == \E k \in 0..Len(t) : SubSeq(t, 1, k) = x

IsSuffixOf(x, t) == \E k \in 0..Len(t) : SubSeq(t, k + 1, Len(t)) = x

HasSep(x) == \E i \in 1..Len(x) : x[i] = Sep

HasDot(x) == \E i \in 1..Len(x) : x[i] = Dot

\* The platform's splitting, stated on the bytes: the root of an absolute
\* path, a leading "." segment, and every maximal separator-free run that
\* is neither empty nor "."
Segments(p) ==
    (IF p # <<>> /\ p[1] = Sep THEN {<<Sep>>} ELSE {})
    \cup (IF p # <<>> /\ p[1] = Dot /\ (Len(p) = 1 \/ p[2] = Sep)
          THEN {<<Dot>>} ELSE {})
    \cup {SubSeq(p, i, j) : <<i, j>> \in
            {ij \in (1..Len(p)) \X (1..Len(p)) :
                /\ ij[1] <= ij[2]
                /\ \A k \in ij[1]..ij[2] : p[k] # Sep
                /\ (ij[1] = 1 \/ p[ij[1] - 1] = Sep)
                /\ (ij[2] = Len(p) \/ p[ij[2] + 1] = Sep)
                /\ SubSeq(p, ij[1], ij[2]) # <<Dot>>}}

-----------------------------------------------------------------------------
(* C1 *)

\* C1: contains(X) is true exactly when the path has a textual form and X is
\* a contiguous substring of it; so contains("") is true of every path with
\* a textual form and contains is false of every path without one.
C1_ContainsIffSubstring ==
    op = "contains" =>
        /\ result.tag = "bool"
        /\ result.b = (HasText(self) /\ IsSubstring(pattern, self))
        /\ (pattern = <<>> /\ HasText(self) => result.b)
        /\ (~HasText(self) => ~result.b)

\* a pattern found strictly inside the text, touching neither end
C1_Witness ==
    /\ op = "contains"
    /\ result.b
    /\ pattern # <<>>
    /\ ~IsPrefixOf(pattern, self)
    /\ ~IsSuffixOf(pattern, self)

-----------------------------------------------------------------------------
(* C2 *)

\* C2: on a path with textual form T, ends_with_extensions(X) is true exactly
\* when X is a literal character suffix of T: every suffix matches (a
\* fragment of the last extension, a dotted multi-part suffix, T itself, the
\* empty pattern) and nothing else does.
C2_EndsWithExtensionsIffSuffix ==
    op = "ends_with_extensions" /\ HasText(self) =>
        /\ result.tag = "bool"
        /\ result.b = IsSuffixOf(pattern, self)
        /\ (pattern = <<>> \/ pattern = self => result.b)
        /\ (self = ArchivePath
              /\ pattern \in {P_dot_tar_gz, P_tar_gz, P_dot_gz, P_z, ArchivePath}
              => result.b)
        /\ (self = ArchivePath /\ pattern = P_gz_no_dot => ~result.b)

\* a suffix that starts inside a component and is not a whole component
C2_Witness ==
    /\ op = "ends_with_extensions"
    /\ result.b
    /\ pattern # <<>>
    /\ pattern # self
    /\ pattern \notin Segments(self)
    /\ HasDot(pattern)

-----------------------------------------------------------------------------
(* C3 *)

\* C3: on a path with textual form T, strip_extensions() is present and is
\* the part of T before the first '.' of the whole of T; T itself when T has
\* no '.'; the present empty string when T begins with '.'.  It is always a
\* prefix of T without any '.'.
C3_StripExtensionsBeforeFirstDot ==
    op = "strip_extensions" /\ HasText(self) =>
        /\ result.tag = "some"
        /\ IsPrefixOf(result.s, self)
        /\ ~HasDot(result.s)
        /\ (Len(result.s) < Len(self) => self[Len(result.s) + 1] = Dot)
        /\ (~HasDot(self) => result.s = self)
        /\ (self # <<>> /\ self[1] = Dot => result = SomeStr(<<>>) /\ result # NoneStr)
        /\ (self = DotStuff => result.s = <<>>)
        /\ (self = SomethingTarGz => result.s = <<"s","o","m","e","t","h","i","n","g">>)
        /\ (self = LastDot => result.s = <<"l","a","s","t","d","o","t">>)
        /\ (self = DirDotPath => result.s = <<"d">>)

\* the first '.' sits in an earlier directory segment and cuts the result there
C3_Witness ==
    /\ op = "strip_extensions"
    /\ result.tag = "some"
    /\ result.s # <<>>
    /\ HasSep(Drop(self, Len(result.s)))
    /\ HasDot(Drop(self, Len(result.s) + 1))

-----------------------------------------------------------------------------
(* C4 *)

\* C4 as stated: has_component(C) is true exactly when C equals one
\* component of the path; so a query of several segments, a query with a
\* trailing separator, a strict fragment of a component and the empty query
\* never match.
C4_AsStated ==
    op = "has_component" =>
        /\ result.b = (pattern \in Segments(self))
        /\ (HasSep(pattern) /\ Len(pattern) >= 2 => ~result.b)
        /\ (pattern # <<>> /\ pattern[Len(pattern)] = Sep => ~result.b)
        /\ (pattern = <<>> => ~result.b)

\* C4, amended: has_component(C) is true exactly when C equals one
\* component of the path, the root "/" of an absolute path being a component;
\* so a query of several segments, a query with a separator after a segment,
\* a strict fragment of a component and the empty query never match, while
\* the query "/" matches exactly the absolute paths.
C4_HasComponentIffComponent ==
    op = "has_component" =>
        /\ result.tag = "bool"
        /\ result.b = (pattern \in Segments(self))
        /\ result.b = (\E i \in 1..Len(Components(self)) :
                            Components(self)[i].str = pattern)
        /\ (HasSep(pattern) /\ Len(pattern) >= 2 => ~result.b)
        /\ (pattern = <<>> => ~result.b)
        /\ (pattern = <<Sep>> => result.b = (self # <<>> /\ self[1] = Sep))
        /\ (self = OptShortPath =>
                result.b = (pattern \in {P_opt, P_somewhere, <<Sep>>}))
        /\ (self = SomePath => result.b = (pattern = P_path))

\* a strict fragment of a component: in the text, yet not a component
C4_Witness ==
    /\ op = "has_component"
    /\ ~result.b
    /\ pattern # <<>>
    /\ ~HasSep(pattern)
    /\ HasText(self)
    /\ IsSubstring(pattern, self)

-----------------------------------------------------------------------------
(* C5 *)

\* C5: strip_prefix_if_needed(X) returns the path made of the remaining
\* components when the components of X lead the components of the path
\* (structurally: a string prefix that cuts a component does not match, and
\* a trailing separator on X changes nothing), and the path itself
\* otherwise; with a non-matching X, applying it again to its own result
\* still yields the original path.
C5_StripPrefixStructural ==
    op = "strip_prefix_if_needed" =>
        LET cx == Components(pattern)
            cp == Components(recv)
        IN  /\ result.tag = "path"
            /\ IF Leads(cx, cp)
               THEN Components(result.s) = SubSeq(cp, Len(cx) + 1, Len(cp))
               ELSE result.s = recv
            /\ (~Leads(cx, Components(self)) => result.s = self /\ recv = self)
            /\ (pattern # <<>> =>
                    Components(strip_prefix_if_needed(recv, Append(pattern, Sep)).s)
                        = Components(result.s))
            /\ (self = UsrPath /\ calls = 1 =>
                  /\ pattern = P_usr_local =>
                        result.s = <<"a","a","r","d","v","a","r","k">>
                  /\ pattern = P_usr_sl =>
                        result.s = <<"l","o","c","a","l","/","a","a","r","d","v","a","r","k">>
                  /\ pattern \in {P_repos_local, P_usr_lo, P_long} =>
                        result.s = UsrPath)

\* a second application with a prefix that is a string prefix of the path
\* but not a structural one
C5_Witness ==
    /\ op = "strip_prefix_if_needed"
    /\ calls = 2
    /\ pattern # <<>>
    /\ IsPrefixOf(pattern, self)
    /\ ~Leads(Components(pattern), Components(self))
    /\ result.s = self

-----------------------------------------------------------------------------
(* C6 *)

\* C6: on a path with textual form T, starts_or_ends_with(X) is true exactly
\* when X is a literal prefix of T or a literal suffix of T; a pattern that
\* occurs only strictly inside T yields false although contains(X) is true.
C6_StartsOrEndsIffAffix ==
    op = "starts_or_ends_with" /\ HasText(self) =>
        /\ result.tag = "bool"
        /\ result.b = (IsPrefixOf(pattern, self) \/ IsSuffixOf(pattern, self))
        /\ (IsSubstring(pattern, self)
              /\ ~IsPrefixOf(pattern, self) /\ ~IsSuffixOf(pattern, self)
              => ~result.b /\ contains(self, pattern).b)
        /\ (self = ThisPath /\ pattern = <<Sep>> => result.b)

\* a suffix that is not a prefix
C6_Witness ==
    /\ op = "starts_or_ends_with"
    /\ result.b
    /\ ~IsPrefixOf(pattern, self)

-----------------------------------------------------------------------------
(* C7 *)

\* C7 as stated: on "/opt/somewhere/someplace/somehow/", "/opt" and
\* "someplace/somehow/" give true, "opt" gives false and "somehow/" gives
\* false.
C7_AsStated ==
    op = "starts_or_ends_with" /\ self = OptPath =>
        /\ (pattern = P_slash_opt => result.b)
        /\ (pattern = P_someplace_somehow_sl => result.b)
        /\ (pattern = P_opt => ~result.b)
        /\ (pattern = P_somehow_sl => ~result.b)

\* C7, amended: on "/opt/somewhere/someplace/somehow/", "/opt" and
\* "someplace/somehow/" give true and "opt" gives false; "somehow/" gives
\* true as well, being a literal suffix; "someplace/somehow" without the
\* trailing separator gives false.
C7_OptPathScenario ==
    op = "starts_or_ends_with" /\ self = OptPath =>
        /\ (pattern = P_slash_opt => result.b)
        /\ (pattern = P_someplace_somehow_sl => result.b)
        /\ (pattern = P_opt => ~result.b)
        /\ (pattern = P_somehow_sl => result.b)
        /\ (pattern = P_someplace_somehow => ~result.b)
        /\ (pattern \in {P_somewhere, P_root} => ~result.b)

C7_Witness ==
    /\ op = "starts_or_ends_with"
    /\ self = OptPath
    /\ pattern = P_somehow_sl
    /\ result.b

-----------------------------------------------------------------------------
(* C8 *)

\* C8: on a path without textual form, contains, starts_or_ends_with and
\* ends_with_extensions are false for every pattern, the empty one included,
\* and strip_extensions is absent, which is not the present empty string;
\* has_component and strip_prefix_if_needed still answer from the component
\* sequence.
C8_NoTextualForm ==
    ~HasText(recv) =>
        /\ (op \in {"contains", "starts_or_ends_with", "ends_with_extensions"}
              => result = Bool(FALSE))
        /\ (op = "strip_extensions" => result = NoneStr /\ result # SomeStr(<<>>))
        /\ (op = "has_component" => result = Bool(pattern \in Segments(self)))
        /\ (op = "strip_prefix_if_needed" =>
              /\ result.tag = "path"
              /\ IF Leads(Components(pattern), Components(recv))
                 THEN Components(result.s) =
                        SubSeq(Components(recv), Len(Components(pattern)) + 1,
                               Len(Components(recv)))
                 ELSE result.s = recv)

\* a path without textual form one of whose components is the query
C8_Witness ==
    /\ ~HasText(self)
    /\ op = "has_component"
    /\ result.b

-----------------------------------------------------------------------------
(* C9 *)

ResultTags ==
    [contains |-> {"bool"}, has_component |-> {"bool"},
     starts_or_ends_with |-> {"bool"}, ends_with_extensions |-> {"bool"},
     strip_extensions |-> {"some", "none"}, strip_prefix_if_needed |-> {"path"}]

\* C9: each of the six operations can be called on every path and pattern
\* (the empty path, the empty pattern, a pattern longer than the path, a
\* path without textual form) and returns a value of its result type.
C9_Total ==
    /\ op = "none" =>
          /\ contains(self, pattern).tag \in ResultTags.contains
          /\ has_component(self, pattern).tag \in ResultTags.has_component
          /\ starts_or_ends_with(self, pattern).tag \in ResultTags.starts_or_ends_with
          /\ ends_with_extensions(self, pattern).tag \in ResultTags.ends_with_extensions
          /\ strip_extensions(self).tag \in ResultTags.strip_extensions
          /\ strip_prefix_if_needed(self, pattern).tag
                \in ResultTags.strip_prefix_if_needed
    /\ op # "none" =>
          /\ op \in DOMAIN ResultTags
          /\ result.tag \in ResultTags[op]
          /\ result.tag = "bool" => result.b \in BOOLEAN /\ result.s = <<>>
          /\ result.tag \in {"some", "path"} => IsSubstring(result.s, self)

\* strip_extensions has returned on a path without textual form
C9_Witness ==
    /\ op = "strip_extensions"
    /\ ~HasText(self)
    /\ result.tag = "none"

-----------------------------------------------------------------------------
(* C10 *)

\* C10: on a path with a textual form, has_component(X) implies contains(X);
\* the converse fails: "/someplace/somehow" is contained in
\* "/opt/somewhere/someplace/somehow/" and is not a component of it.
C10_HasComponentImpliesContains ==
    /\ op = "has_component" /\ HasText(self) /\ result.b
          => contains(self, pattern).b
    /\ op = "contains" /\ HasText(self) /\ ~result.b
          => ~has_component(self, pattern).b
    /\ self = OptPath /\ pattern = P_sl_someplace_somehow =>
          /\ op = "contains" => result.b
          /\ op = "has_component" => ~result.b

C10_Witness ==
    /\ op = "contains"
    /\ self = OptPath
    /\ pattern = P_sl_someplace_somehow
    /\ result.b
    /\ ~has_component(self, pattern).b

====
